---- MODULE Spec2Model ----
(***************************************************************************)
(* Model of the skinone upload/classification backend: the JWT gate, the   *)
(* content-addressed image store (images/views.py) and the classification  *)
(* ledger (classification/views.py).  Every request handler is a process   *)
(* whose steps are its database and file-system operations, so that two    *)
(* requests can interleave between the hash lookup and the insert.         *)
(***************************************************************************)
EXTENDS Integers, Sequences, FiniteSets, TLC

VARIABLES
    users,            \* User rows
    nextUserId,       \* User primary-key sequence
    now,              \* time.time()
    images,           \* Image rows
    files,            \* files under MEDIA_ROOT/IMAGES_UPLOAD_DIR
    classifications,  \* Classification rows
    nextImageId,      \* Image primary-key sequence
    nextClsId,        \* Classification primary-key sequence
    pc,               \* position of each request handler
    req,              \* the request each handler serves
    idx,              \* loop index of the batch loop
    cur,              \* locals of the loop body
    resp,             \* the response under construction
    log,              \* per element: what the handler did for it
    issued,           \* (file_hash, image id) pairs returned to clients
    started,          \* number of requests accepted so far
    tokens            \* access tokens that login_user has handed out

vars == <<users, nextUserId, now, images, files, classifications, nextImageId, nextClsId,
          pc, req, idx, cur, resp, log, issued, started, tokens>>

----------------------------------------------------------------------------
(* Bounds of the exploration *)

MaxRequests == 2
MaxBatch == 2

(* Program constants *)

max_size == 10485760
max_batch == 20
NULL == 0

Procs == {"p1", "p2"}

----------------------------------------------------------------------------
(* Users and bearer tokens *)

SECRET_KEY == "server-secret"

\* str values are sequences of characters
Digits == {"0", "1", "2", "3", "4", "5", "6", "7", "8"}
LowerCase == {"a", "b", "c", "d", "o", "p", "r", "s", "w", "x"}
UpperCase == {"A"}

\* e-mail addresses and passwords used below
AliceEmail == <<"a", "@", "x", ".", "c", "o">>
StaffEmail == <<"s", "@", "x", ".", "c", "o">>
BobEmail == <<"b", "@", "x", ".", "c", "o">>
GoodPassword == <<"p", "a", "s", "s", "w", "0", "r", "d">>
OtherPassword == <<"p", "a", "s", "s", "w", "0", "r", "x">>

\* User.last_login of a user who never logged in
NeverLoggedIn == 0

AnonymousUser ==
    [id |-> NULL, email |-> <<>>, password |-> <<>>, is_staff |-> FALSE,
     is_active |-> FALSE, last_login |-> NeverLoggedIn, anonymous |-> TRUE]

\* a row of the users table; password stands for the stored hash of it
UserRow(id, email, password, is_staff) ==
    [id |-> id, email |-> email, password |-> password, is_staff |-> is_staff,
     is_active |-> TRUE, last_login |-> NeverLoggedIn, anonymous |-> FALSE]

InitialUsers ==
    { UserRow(1, AliceEmail, GoodPassword, FALSE),
      UserRow(2, StaffEmail, GoodPassword, TRUE) }

\* A token is the decoded form of a compact JWT: payload fields and the key
\* that signed it; sig = "malformed" is a string that is not a JWT at all.
Token(user_id, exp, sig) == [user_id |-> user_id, exp |-> exp, sig |-> sig]

\* tokens of users 1 and 2, an expired one, and one signed with another key
Tokens ==
    { Token(1, 2, SECRET_KEY), Token(2, 2, SECRET_KEY),
      Token(1, 0, SECRET_KEY), Token(1, 2, "other-key") }

\* HTTP_AUTHORIZATION: absent, another scheme, or "Bearer <token>"
AuthHeaders ==
    { [scheme |-> "", token |-> Token(NULL, 0, "malformed")],
      [scheme |-> "Basic", token |-> Token(1, 2, SECRET_KEY)] }
      \cup [scheme : {"Bearer"}, token : Tokens]

\* a verification that does not look at exp
verify_jwt_token_NoExpiry(token, t) ==
    IF token.sig # SECRET_KEY THEN [user_id |-> NULL, error |-> "Invalid token"]
    ELSE [user_id |-> token.user_id, error |-> ""]

\* users/views.py verify_jwt_token at time t: (user_id, error)
verify_jwt_token(token, t) ==
    IF token.sig # SECRET_KEY THEN [user_id |-> NULL, error |-> "Invalid token"]
    ELSE IF token.exp < t THEN [user_id |-> NULL, error |-> "Token expired"]
    ELSE [user_id |-> token.user_id, error |-> ""]

UserById(us, uid) == { u \in us : u.id = uid }

\* a decorator that admits active users only
jwt_required_ActiveOnly(auth, us, t) ==
    IF auth.scheme # "Bearer" THEN [status |-> 401, user |-> AnonymousUser]
    ELSE LET v == verify_jwt_token(auth.token, t)
             found == { u \in UserById(us, v.user_id) : u.is_active }
         IN IF v.error # "" \/ found = {} THEN [status |-> 401, user |-> AnonymousUser]
            ELSE [status |-> 0, user |-> CHOOSE u \in found : TRUE]

\* images/views.py jwt_required: status 0 lets the view run with request.user
jwt_required(auth, us, t) ==
    IF auth.scheme # "Bearer" THEN [status |-> 401, user |-> AnonymousUser]
    ELSE LET v == verify_jwt_token(auth.token, t) IN
         IF v.error # "" THEN [status |-> 401, user |-> AnonymousUser]
         ELSE IF UserById(us, v.user_id) = {} THEN [status |-> 401, user |-> AnonymousUser]
         ELSE [status |-> 0, user |-> CHOOSE u \in UserById(us, v.user_id) : TRUE]

\* request.user of a view that has no jwt_required decorator: the user the
\* JWT middleware resolved, otherwise the anonymous user
MiddlewareUser(auth, us, t) ==
    IF auth.scheme # "Bearer" THEN AnonymousUser
    ELSE LET v == verify_jwt_token(auth.token, t)
             found == { u \in UserById(us, v.user_id) : u.is_active }
         IN IF v.error # "" \/ v.user_id = NULL \/ found = {} THEN AnonymousUser
            ELSE CHOOSE u \in found : TRUE

----------------------------------------------------------------------------
(* Payloads *)

\* A byte sequence is described by what the store looks at: its length and
\* a seed that separates sequences of equal length.
Blobs ==
    { [seed |-> 1, len |-> 3], [seed |-> 2, len |-> max_size],
      [seed |-> 1, len |-> max_size + 1] }

\* SHA-256 hex digest: deterministic, and distinct for distinct byte sequences
calculate_file_hash(blob) == blob.seed * (max_size + 2) + blob.len

\* client file names, as os.path.splitext splits them
FileNames ==
    { [stem |-> "a", ext |-> ".jpg"], [stem |-> "b", ext |-> ".PNG"],
      [stem |-> "c", ext |-> ".exe"] }

lower(ext) ==
    CASE ext = ".PNG" -> ".png"
      [] ext = ".JPG" -> ".jpg"
      [] OTHER -> ext

allowed_extensions == {".jpg", ".jpeg", ".png", ".gif", ".bmp", ".webp"}

\* the enumeration with the stage default of the model left in it
CLASSIFICATION_CHOICES_Drift ==
    {"stage1", "stage2", "stage3", "stage4", "not_classifiable", "dtpi", "nao_classificavel"}

CLASSIFICATION_CHOICES == {"stage1", "stage2", "stage3", "stage4", "not_classifiable", "dtpi"}

\* stage values a request may carry; "" is an absent parameter
StageInputs == {"", "stage1", "dtpi", "nao_classificavel"}

\* base64 request field, split at its commas: "" (absent) is the empty
\* sequence; a part is the data-URL prefix, text that b64decode refuses, or
\* the encoding of a blob
B64Part(kind, blob) == [kind |-> kind, blob |-> blob]

NoBlob == [seed |-> 0, len |-> 0]

Base64Strings ==
    { <<>>, <<B64Part("garbage", NoBlob)>> }
      \cup { <<B64Part("b64", b)>> : b \in Blobs }
      \cup { <<B64Part("prefix", NoBlob), B64Part("b64", [seed |-> 1, len |-> 3])>> }

\* decode_base64_image: the decoded bytes, or ok = FALSE when b64decode raises
decode_base64_image(s) ==
    LET body == IF Len(s) > 1 THEN s[2] ELSE s[1]
    IN IF body.kind = "b64" THEN [ok |-> TRUE, blob |-> body.blob]
       ELSE [ok |-> FALSE, blob |-> NoBlob]

\* relative path stored in Image.file_path and written under MEDIA_ROOT
PathOf(file_hash, ext) == [dir |-> "images", hash |-> file_hash, ext |-> ext]

\* save_uploaded_file: <hash><lower-cased extension>
save_uploaded_file(name, file_hash) == PathOf(file_hash, lower(name.ext))

\* save_image_from_content: as above, '.jpg' when the name has no extension
save_image_from_content(name, file_hash) ==
    PathOf(file_hash, IF lower(name.ext) = "" THEN ".jpg" ELSE lower(name.ext))

----------------------------------------------------------------------------
(* Requests *)

MultipartRoutes == {"upload_single_image", "upload_batch_images", "upload_with_stage",
                    "upload_with_classification_multipart"}
Base64Routes == {"upload_base64_image", "upload_batch_base64_images",
                 "upload_with_classification_json"}
SingleRoutes == {"upload_single_image", "upload_base64_image"}
ClassifyingRoutes == {"upload_with_stage", "upload_with_classification_multipart",
                      "upload_with_classification_json"}
UploadRoutes == MultipartRoutes \cup Base64Routes

\* views decorated with @jwt_required; upload_with_stage is not
GatedRoutes == (UploadRoutes \ {"upload_with_stage"}) \cup {"create_classification"}

\* n: number of files / list elements; stage: the stage parameter;
\* image_id, observations: fields of create_classification
Request(route, ns, stages, ids, obs) ==
    [route : {route}, auth : AuthHeaders, n : ns, stage : stages, image_id : ids,
     observations : obs]

UploadRequests ==
    Request("upload_single_image", 0..1, {""}, {0}, {""})
      \cup Request("upload_base64_image", {1}, {""}, {0}, {""})
      \cup Request("upload_batch_images", 0..MaxBatch, {""}, {0}, {""})
      \cup Request("upload_batch_base64_images", 0..MaxBatch, {""}, {0}, {""})
      \cup Request("upload_with_stage", 0..MaxBatch, StageInputs, {0}, {""})
      \cup Request("upload_with_classification_multipart", 0..MaxBatch, {""}, {0}, {""})
      \cup Request("upload_with_classification_json", 0..MaxBatch, {""}, {0}, {""})

\* the routes that take a list of elements
BatchRoutes == UploadRoutes \ SingleRoutes

\* batches at the cap and one element over it, from user 1
CapRequests ==
    { r \in [route : BatchRoutes,
             auth : {[scheme |-> "Bearer", token |-> Token(1, 2, SECRET_KEY)]},
             n : {max_batch, max_batch + 1}, stage : {"", "stage1"},
             image_id : {0}, observations : {""}] :
        r.stage = "stage1" <=> r.route = "upload_with_stage" }

ClassifyRequests ==
    Request("create_classification", {0}, StageInputs, {0, 1, 2}, {"", "note"})

ItemStages == {"stage1", "nao_classificavel"}

\* one element of a request: a multipart file (name, blob) or a JSON object
\* (filename, image_data); cls is its classification on the
\* with-classification route
MultipartItems(route) ==
    [name : FileNames, blob : Blobs, b64 : {<<>>},
     cls : IF route = "upload_with_classification_multipart" THEN ItemStages ELSE {""}]

Base64Items(route) ==
    [name : FileNames \cup {[stem |-> "d", ext |-> ""]}, blob : {NoBlob}, b64 : Base64Strings,
     cls : IF route = "upload_with_classification_json" THEN ItemStages ELSE {""}]

Items(route) == IF route \in MultipartRoutes THEN MultipartItems(route) ELSE Base64Items(route)

NoReq == [route |-> "", auth |-> [scheme |-> "", token |-> Token(NULL, 0, "malformed")],
          n |-> 0, stage |-> "", image_id |-> 0, observations |-> "", user |-> AnonymousUser,
          id |-> 0, classification |-> "", comment |-> "", user_id |-> 0]

NoPath == PathOf(0, "")

NoCur == [name |-> [stem |-> "", ext |-> ""], blob |-> NoBlob, cls |-> "",
          present |-> FALSE, file_hash |-> 0, file_path |-> NoPath,
          decoded |-> FALSE, existing |-> 0, image |-> 0, writes |-> 0,
          inserts |-> 0, classification |-> 0, outcome |-> ""]

NoResp == [status |-> 0, results |-> <<>>, classified |-> <<>>, errors |-> <<>>,
           listed |-> {}, user_id |-> 0, message |-> ""]

\* what a view does with an element that fails its checks
OnInvalid(route) ==
    CASE route \in SingleRoutes -> "reject"
      [] route \in {"upload_batch_images", "upload_with_stage"} -> "skip"
      [] OTHER -> "error"

\* what a view does when the loop body raises
OnException(route) ==
    CASE route \in SingleRoutes -> "abort"
      [] route \in {"upload_batch_images", "upload_with_stage"} -> "skip"
      [] OTHER -> "error"

\* status of the response that ends a completed loop
FinalStatus(r) ==
    CASE r.route \in {"upload_single_image", "upload_batch_images"} -> 201
      [] r.route = "upload_with_stage" -> IF r.user.anonymous THEN 500 ELSE 201
      [] OTHER -> 200

\* a table without its index on file_hash
ImageByHash_None(h) == {}

\* the rows the index on Image.file_hash holds for h
ImageByHash(h) == { i \in images : i.file_hash = h }

\* a view that skips the lookup
existing_image_None(h) == {}

\* existing_image = Image.objects.filter(file_hash=file_hash).first()
existing_image(h) == ImageByHash(h)

\* a lookup that takes any row for the image
ImageById_Any(id) == images

\* Image.objects.get(id=image_id)
ImageById(id) == { i \in images : i.id = id }

Result(image, status) == [id |-> image.id, url |-> image.file_path, status |-> status]

Pairs(results) == { [file_hash |-> results[k].url.hash, id |-> results[k].id] : k \in DOMAIN results }

----------------------------------------------------------------------------
(* Initial state: the two registered users, empty stores, idle handlers *)

Init ==
    /\ users = InitialUsers
    /\ nextUserId = 3
    /\ now = 1
    /\ images = {}
    /\ files = {}
    /\ classifications = {}
    /\ nextImageId = 1
    /\ nextClsId = 1
    /\ pc = [p \in Procs |-> "idle"]
    /\ req = [p \in Procs |-> NoReq]
    /\ idx = [p \in Procs |-> 0]
    /\ cur = [p \in Procs |-> NoCur]
    /\ resp = [p \in Procs |-> NoResp]
    /\ log = [p \in Procs |-> <<>>]
    /\ issued = {}
    /\ started = 0
    /\ tokens = {}

----------------------------------------------------------------------------
(* The end of a loop body, of the loop, and of the request *)

\* What the handler did for one element: the facts about the payload that
\* its checks look at, and the effects of the loop body
LogEntry(c) ==
    [present |-> c.present, decoded |-> c.decoded,
     ext_ok |-> lower(c.name.ext) \in allowed_extensions,
     size_ok |-> c.blob.len <= max_size,
     file_hash |-> c.file_hash, existing |-> c.existing, image |-> c.image,
     writes |-> c.writes, inserts |-> c.inserts,
     classification |-> c.classification, outcome |-> c.outcome]

\* The response leaves the server: the ids it names become known to clients
Respond(p, r) ==
    /\ resp' = [resp EXCEPT ![p] = r]
    /\ pc' = [pc EXCEPT ![p] = "done"]
    /\ issued' = IF r.status \in {200, 201} THEN issued \cup Pairs(r.results) ELSE issued

\* The loop body ends for the current element (normally, by continue, or in
\* its except clause); after the last element the view logs and responds.
ItemDone(p, r, c) ==
    /\ log' = [log EXCEPT ![p] = Append(@, LogEntry(c))]
    /\ cur' = [cur EXCEPT ![p] = NoCur]
    /\ IF idx[p] < req[p].n
         THEN /\ idx' = [idx EXCEPT ![p] = @ + 1]
              /\ pc' = [pc EXCEPT ![p] = "loop"]
              /\ resp' = [resp EXCEPT ![p] = r]
              /\ UNCHANGED issued
         ELSE /\ UNCHANGED idx
              /\ LET st == FinalStatus(req[p])
                 IN Respond(p, IF st = 500 THEN [NoResp EXCEPT !.status = 500]
                                           ELSE [r EXCEPT !.status = st])

\* A single-element view returns from inside its body
Return(p, r, c) ==
    /\ log' = [log EXCEPT ![p] = Append(@, LogEntry(c))]
    /\ cur' = [cur EXCEPT ![p] = NoCur]
    /\ UNCHANGED idx
    /\ Respond(p, r)

\* The element fails a check of the view
Invalid(p, c) ==
    LET how == OnInvalid(req[p].route)
        c2 == [c EXCEPT !.outcome = "invalid"]
    IN CASE how = "reject" -> Return(p, [NoResp EXCEPT !.status = 400], c2)
         [] how = "skip" -> ItemDone(p, resp[p], c2)
         [] OTHER -> ItemDone(p, [resp[p] EXCEPT !.errors = Append(@, idx[p])], c2)

\* The loop body raises exception exc
Raise(p, c, exc) ==
    LET how == OnException(req[p].route)
        c2 == [c EXCEPT !.outcome = exc]
    IN CASE how = "abort" -> Return(p, [NoResp EXCEPT !.status = 500], c2)
         [] how = "skip" -> ItemDone(p, resp[p], c2)
         [] OTHER -> ItemDone(p, [resp[p] EXCEPT !.errors = Append(@, idx[p])], c2)

----------------------------------------------------------------------------
(* The upload views *)

\* the checks a view makes on the request before its loop: 0 lets it go on
Precheck(r) ==
    CASE r.route = "upload_with_stage" ->
             IF r.stage = "" \/ r.stage \notin CLASSIFICATION_CHOICES \/ r.n = 0
             THEN 400 ELSE 0
      [] r.route \in {"upload_batch_base64_images", "upload_with_classification_json"} ->
             IF r.n = 0 \/ r.n > max_batch THEN 400 ELSE 0
      [] r.route = "upload_base64_image" -> 0
      [] OTHER -> IF r.n = 0 THEN 400 ELSE 0

\* The decorator and the head of an upload view, up to its first element
Start(p, r) ==
    /\ pc[p] = "idle"
    /\ r \in UploadRequests \cup CapRequests
    /\ started' = started + 1
    /\ LET gate == IF r.route \in GatedRoutes
                   THEN jwt_required(r.auth, users, now)
                   ELSE [status |-> 0, user |-> MiddlewareUser(r.auth, users, now)]
           rq == [route |-> r.route, auth |-> r.auth, n |-> r.n, stage |-> r.stage,
                  image_id |-> r.image_id, observations |-> r.observations,
                  user |-> gate.user,
                  id |-> 0, classification |-> "", comment |-> "", user_id |-> 0]
           early == IF gate.status # 0 THEN gate.status ELSE Precheck(rq)
       IN /\ req' = [req EXCEPT ![p] = rq]
          /\ log' = [log EXCEPT ![p] = <<>>]
          /\ cur' = [cur EXCEPT ![p] = NoCur]
          /\ IF early # 0
               THEN /\ Respond(p, [NoResp EXCEPT !.status = early])
                    /\ UNCHANGED idx
               ELSE /\ pc' = [pc EXCEPT ![p] = "loop"]
                    /\ idx' = [idx EXCEPT ![p] = 1]
                    /\ resp' = [resp EXCEPT ![p] = NoResp]
                    /\ UNCHANGED issued
    /\ UNCHANGED <<users, nextUserId, now, tokens, images, files, classifications,
                   nextImageId, nextClsId>>

\* The head of the loop body for element `it`: its checks, the hash and the
\* lookup Image.objects.filter(file_hash=...).first()
LoopItem(p, it) ==
    /\ pc[p] = "loop"
    /\ it \in Items(req[p].route)
    /\ LET r == req[p]
           base64 == r.route \in Base64Routes
           present == ~base64 \/ it.b64 # <<>>
           dec == IF base64
                  THEN IF present THEN decode_base64_image(it.b64)
                       ELSE [ok |-> FALSE, blob |-> NoBlob]
                  ELSE [ok |-> TRUE, blob |-> it.blob]
           cls_ok == r.route \in {"upload_with_classification_multipart",
                                  "upload_with_classification_json"}
                        => it.cls \in CLASSIFICATION_CHOICES
           ext_ok == base64 \/ lower(it.name.ext) \in allowed_extensions
           size_ok == dec.blob.len <= max_size
           h == calculate_file_hash(dec.blob)
           found == existing_image(h)
           c == [NoCur EXCEPT !.name = it.name, !.blob = dec.blob, !.cls = it.cls,
                              !.present = present, !.decoded = dec.ok,
                              !.file_hash = h]
       IN IF ~(present /\ dec.ok /\ cls_ok /\ ext_ok /\ size_ok)
            THEN Invalid(p, [c EXCEPT !.file_hash = 0])
          ELSE IF found = {}
            THEN /\ pc' = [pc EXCEPT ![p] = "write"]
                 /\ cur' = [cur EXCEPT ![p] = c]
                 /\ UNCHANGED <<resp, log, idx, issued>>
          ELSE LET img == CHOOSE i \in found : TRUE
                   c2 == [c EXCEPT !.existing = img.id, !.image = img.id,
                                   !.outcome = "existing"]
               IN CASE r.route \in SingleRoutes ->
                         Return(p, [NoResp EXCEPT !.status = FinalStatus(r),
                                                  !.results = <<Result(img, "existing")>>], c2)
                    [] r.route \in {"upload_batch_images", "upload_batch_base64_images"} ->
                         ItemDone(p, [resp[p] EXCEPT !.results = Append(@, Result(img, "existing"))], c2)
                    [] r.route = "upload_with_stage" ->
                         /\ pc' = [pc EXCEPT ![p] = "classify"]
                         /\ cur' = [cur EXCEPT ![p] = c2]
                         /\ resp' = [resp EXCEPT ![p].results = Append(@, Result(img, "existing"))]
                         /\ UNCHANGED <<log, idx, issued>>
                    [] OTHER ->
                         /\ pc' = [pc EXCEPT ![p] = "classify"]
                         /\ cur' = [cur EXCEPT ![p] = c2]
                         /\ UNCHANGED <<resp, log, idx, issued>>
    /\ UNCHANGED <<users, nextUserId, now, tokens, images, files, classifications,
                   nextImageId, nextClsId,
                   req, started>>

\* save_uploaded_file / save_image_from_content: open(path, 'wb') and write
WriteFile(p) ==
    /\ pc[p] = "write"
    /\ LET path == IF req[p].route \in Base64Routes
                   THEN save_image_from_content(cur[p].name, cur[p].file_hash)
                   ELSE save_uploaded_file(cur[p].name, cur[p].file_hash)
       IN /\ files' = { f \in files : f.path # path }
                        \cup { [path |-> path, content |-> cur[p].blob] }
          /\ cur' = [cur EXCEPT ![p].file_path = path, ![p].writes = @ + 1]
    /\ pc' = [pc EXCEPT ![p] = "insert"]
    /\ UNCHANGED <<users, nextUserId, now, tokens, images, classifications, nextImageId,
                   nextClsId,
                   req, idx, resp, log, issued, started>>

\* a row that is always credited to user 1
NewImage_FirstUser(id, c, user) ==
    [id |-> id, file_path |-> c.file_path, file_hash |-> c.file_hash,
     original_filename |-> c.name, file_size |-> c.blob.len, uploaded_by |-> 1]

\* the row Image.objects.create(...) inserts
NewImage(id, c, user) ==
    [id |-> id, file_path |-> c.file_path, file_hash |-> c.file_hash,
     original_filename |-> c.name, file_size |-> c.blob.len, uploaded_by |-> user.id]

\* the insert without the UNIQUE constraint on file_hash
InsertRaises_NoUnique(c, user) == IF user.anonymous THEN "ValueError" ELSE ""

\* uploaded_by must be a User instance (ValueError), and file_hash is
\* UNIQUE (IntegrityError); "" when the insert succeeds
InsertRaises(c, user) ==
    IF user.anonymous THEN "ValueError"
    ELSE IF ImageByHash(c.file_hash) # {} THEN "IntegrityError"
    ELSE ""

\* Image.objects.create(...)
InsertImage(p) ==
    /\ pc[p] = "insert"
    /\ LET r == req[p]
           c == cur[p]
       IN IF InsertRaises(c, r.user) # ""
            THEN /\ Raise(p, c, InsertRaises(c, r.user))
                 /\ UNCHANGED <<images, nextImageId>>
            ELSE LET img == NewImage(nextImageId, c, r.user)
                     c2 == [c EXCEPT !.image = img.id, !.inserts = @ + 1,
                                     !.outcome = "uploaded"]
                 IN /\ images' = images \cup {img}
                    /\ nextImageId' = nextImageId + 1
                    /\ CASE r.route \in SingleRoutes ->
                              Return(p, [NoResp EXCEPT !.status = FinalStatus(r),
                                                       !.results = <<Result(img, "uploaded")>>], c2)
                         [] r.route \in {"upload_batch_images", "upload_batch_base64_images"} ->
                              ItemDone(p, [resp[p] EXCEPT !.results = Append(@, Result(img, "uploaded"))], c2)
                         [] r.route = "upload_with_stage" ->
                              /\ pc' = [pc EXCEPT ![p] = "classify"]
                              /\ cur' = [cur EXCEPT ![p] = c2]
                              /\ resp' = [resp EXCEPT ![p].results = Append(@, Result(img, "uploaded"))]
                              /\ UNCHANGED <<log, idx, issued>>
                         [] OTHER ->
                              /\ pc' = [pc EXCEPT ![p] = "classify"]
                              /\ cur' = [cur EXCEPT ![p] = c2]
                              /\ UNCHANGED <<resp, log, idx, issued>>
    /\ UNCHANGED <<users, nextUserId, now, tokens, files, classifications, nextClsId, req,
                   started>>

\* an insert that drops the observations
NewClassification_NoObservations(id, user, image, stage, observations) ==
    [id |-> id, user |-> user.id, image |-> image, stage |-> stage, observations |-> ""]

\* the row Classification.objects.create(...) inserts
NewClassification(id, user, image, stage, observations) ==
    [id |-> id, user |-> user.id, image |-> image, stage |-> stage,
     observations |-> observations]

\* a create() that accepts whatever it is given
ClassifyRaises_Never(r) == ""

\* The with-classification views pass classification= and comment=, which
\* are not fields of Classification (TypeError); user must be a User
\* instance (ValueError); "" when the insert succeeds
ClassifyRaises(r) ==
    IF r.route # "upload_with_stage" THEN "TypeError"
    ELSE IF r.user.anonymous THEN "ValueError"
    ELSE ""

\* Classification.objects.create(...) for the image of the current element
Classify(p) ==
    /\ pc[p] = "classify"
    /\ LET r == req[p]
           c == cur[p]
       IN IF ClassifyRaises(r) # ""
            THEN /\ Raise(p, c, ClassifyRaises(r))
                 /\ UNCHANGED <<classifications, nextClsId>>
            ELSE LET k == NewClassification(nextClsId, r.user, c.image, r.stage, "")
                 IN /\ classifications' = classifications \cup {k}
                    /\ nextClsId' = nextClsId + 1
                    /\ ItemDone(p, [resp[p] EXCEPT !.classified = Append(@,
                                      [id |-> k.id, image_id |-> k.image, stage |-> k.stage])],
                                [c EXCEPT !.classification = k.id])
    /\ UNCHANGED <<users, nextUserId, now, tokens, images, files, nextImageId, req, started>>

\* The client has the response; the handler is free again
Finish(p) ==
    /\ pc[p] = "done"
    /\ pc' = [pc EXCEPT ![p] = "idle"]
    /\ req' = [req EXCEPT ![p] = NoReq]
    /\ resp' = [resp EXCEPT ![p] = NoResp]
    /\ log' = [log EXCEPT ![p] = <<>>]
    /\ idx' = [idx EXCEPT ![p] = 0]
    /\ cur' = [cur EXCEPT ![p] = NoCur]
    /\ UNCHANGED <<users, nextUserId, now, tokens, images, files, classifications,
                   nextImageId, nextClsId,
                   issued, started>>

----------------------------------------------------------------------------
(* classification/views.py *)

\* Meta with unique_together = ['user', 'image'] in force
unique_together_Enforced(user, image) ==
    { c \in classifications : c.user = user.id /\ c.image = image }

\* Classification.Meta: the rows that forbid a new row of (user, image);
\* unique_together is commented out, so there are none
unique_together(user, image) == {}

\* create_classification (POST): decorator, validation, lookup and insert
create_classification(p, r) ==
    /\ pc[p] = "idle"
    /\ r \in ClassifyRequests
    /\ started' = started + 1
    /\ LET gate == jwt_required(r.auth, users, now)
           rq == [route |-> r.route, auth |-> r.auth, n |-> r.n, stage |-> r.stage,
                  image_id |-> r.image_id, observations |-> r.observations,
                  user |-> gate.user,
                  id |-> 0, classification |-> "", comment |-> "", user_id |-> 0]
           status == IF gate.status # 0 THEN gate.status
                     ELSE IF r.image_id = 0 \/ r.stage = "" THEN 400
                     ELSE IF r.stage \notin CLASSIFICATION_CHOICES THEN 400
                     ELSE IF ImageById(r.image_id) = {} THEN 404
                     ELSE IF unique_together(gate.user, r.image_id) # {} THEN 500
                     ELSE 201
           k == NewClassification(nextClsId, gate.user, r.image_id, r.stage, r.observations)
       IN /\ req' = [req EXCEPT ![p] = rq]
          /\ IF status = 201
               THEN /\ classifications' = classifications \cup {k}
                    /\ nextClsId' = nextClsId + 1
                    /\ log' = [log EXCEPT ![p] = <<LogEntry([NoCur EXCEPT !.image = k.image,
                                                       !.classification = k.id])>>]
                    /\ Respond(p, [NoResp EXCEPT !.status = 201, !.classified =
                                     <<[id |-> k.id, image_id |-> k.image, stage |-> k.stage]>>])
               ELSE /\ UNCHANGED <<classifications, nextClsId>>
                    /\ log' = [log EXCEPT ![p] = <<LogEntry([NoCur EXCEPT !.outcome = "invalid"])>>]
                    /\ Respond(p, [NoResp EXCEPT !.status = status])
    /\ UNCHANGED <<users, nextUserId, now, tokens, images, files, nextImageId, idx, cur>>

\* JSON null / a key that the body does not carry
None == "<None>"

\* Requests of the classification views that address a record or a listing:
\* id is the classification_id of the URL; classification and comment are
\* the body keys update_classification reads; stage and observations are the
\* keys of the API documents, which it does not read; user_id, image_id and
\* classification are the query parameters of the listing ("" / 0: absent)
RecordRequest(route, ids, classification, comment, stages, obs, user_ids, image_ids) ==
    [route : {route}, auth : AuthHeaders, n : {0}, stage : stages, image_id : image_ids,
     observations : obs, id : ids, classification : classification, comment : comment,
     user_id : user_ids]

UpdateRequests ==
    RecordRequest("update_classification", {1, 2}, {"", "dtpi", "nao_classificavel"},
                  {None, "note"}, {"", "dtpi"}, {""}, {0}, {0})

DeleteRequests ==
    RecordRequest("delete_classification", {1, 2}, {""}, {None}, {""}, {""}, {0}, {0})

GetRequests ==
    RecordRequest("get_classification", {1, 2}, {""}, {None}, {""}, {""}, {0}, {0})

ListRequests ==
    RecordRequest("list_classifications", {0}, {"", "stage1"}, {None}, {""}, {""},
                  {0, 1, 2}, {0, 1})

\* a lookup that ignores the id
ClassificationById_All(id) == classifications

\* Classification.objects.get(id=classification_id)
ClassificationById(id) == { c \in classifications : c.id = id }

\* request.user of a view behind jwt_required, bound into the request
Bound(r, user) ==
    [route |-> r.route, auth |-> r.auth, n |-> r.n, stage |-> r.stage,
     image_id |-> r.image_id, observations |-> r.observations, user |-> user,
     id |-> r.id, classification |-> r.classification, comment |-> r.comment,
     user_id |-> r.user_id]

\* a view without the ownership check
PermissionDenied_Never(c, user) == FALSE

\* classification_obj.user != request.user and not request.user.is_staff
PermissionDenied(c, user) == c.user # user.id /\ ~user.is_staff

\* A view of classification/views.py answers: no element loop, no log
Answer(p, rq, r) ==
    /\ req' = [req EXCEPT ![p] = rq]
    /\ started' = started + 1
    /\ log' = [log EXCEPT ![p] = <<>>]
    /\ Respond(p, r)
    /\ UNCHANGED <<users, nextUserId, now, tokens, images, files, nextImageId, nextClsId,
                   idx, cur>>

\* update_classification (PUT): the values are assigned to the attributes
\* `classification` and `comment` of the instance, which are not fields of
\* the model, so save() writes the row back as it was read; building the
\* response raises AttributeError unless both attributes were assigned
update_classification(p, r) ==
    /\ pc[p] = "idle"
    /\ r \in UpdateRequests
    /\ LET gate == jwt_required(r.auth, users, now)
           found == ClassificationById(r.id)
           obj == CHOOSE c \in found : TRUE
           status == IF gate.status # 0 THEN gate.status
                     ELSE IF found = {} THEN 404
                     ELSE IF PermissionDenied(obj, gate.user) THEN 403
                     ELSE IF r.classification # "" /\ r.classification \notin CLASSIFICATION_CHOICES
                       THEN 400
                     ELSE IF r.classification = "" \/ r.comment = None THEN 500
                     ELSE 200
       IN /\ Answer(p, Bound(r, gate.user),
                    IF status = 200
                    THEN [NoResp EXCEPT !.status = 200, !.classified =
                            <<[id |-> obj.id, image_id |-> obj.image, stage |-> r.classification]>>]
                    ELSE [NoResp EXCEPT !.status = status])
          /\ classifications' = classifications

\* delete_classification (DELETE)
delete_classification(p, r) ==
    /\ pc[p] = "idle"
    /\ r \in DeleteRequests
    /\ LET gate == jwt_required(r.auth, users, now)
           found == ClassificationById(r.id)
           obj == CHOOSE c \in found : TRUE
           status == IF gate.status # 0 THEN gate.status
                     ELSE IF found = {} THEN 404
                     ELSE IF PermissionDenied(obj, gate.user) THEN 403
                     ELSE 200
       IN /\ Answer(p, Bound(r, gate.user), [NoResp EXCEPT !.status = status])
          /\ classifications' = IF status = 200 THEN classifications \ found
                                ELSE classifications

\* get_classification (GET): the body reads classification.classification,
\* which no instance has (AttributeError)
get_classification(p, r) ==
    /\ pc[p] = "idle"
    /\ r.route = "get_classification"
    /\ LET gate == jwt_required(r.auth, users, now)
           status == IF gate.status # 0 THEN gate.status
                     ELSE IF ClassificationById(r.id) = {} THEN 404
                     ELSE 500
       IN Answer(p, Bound(r, gate.user), [NoResp EXCEPT !.status = status])
    /\ UNCHANGED classifications

\* the rows list_classifications selects from `rows` for request r of `user`
Selected(rows, r, user) ==
    { c \in rows :
        /\ r.image_id # 0 => c.image = r.image_id
        /\ IF ~user.is_staff
             THEN IF r.user_id # 0 THEN c.user = r.user_id ELSE c.user = user.id
             ELSE r.user_id # 0 => c.user = r.user_id }

\* the response of list_classifications over the table `rows`: filtering on
\* `classification` raises FieldError, and serialising a row raises
\* AttributeError, so only an empty selection is answered 200
ListResponse(rows, r, user) ==
    IF r.classification # "" THEN [NoResp EXCEPT !.status = 500]
    ELSE IF Selected(rows, r, user) # {} THEN [NoResp EXCEPT !.status = 500]
    ELSE [NoResp EXCEPT !.status = 200, !.listed = {}]

\* list_classifications (GET)
list_classifications(p, r) ==
    /\ pc[p] = "idle"
    /\ r \in ListRequests
    /\ LET gate == jwt_required(r.auth, users, now)
       IN Answer(p, Bound(r, gate.user),
                 IF gate.status # 0 THEN [NoResp EXCEPT !.status = gate.status]
                 ELSE ListResponse(classifications, r, gate.user))
    /\ UNCHANGED classifications

----------------------------------------------------------------------------
(* Specifications *)

Idle == \A p \in Procs : pc[p] = "idle"

\* Spec: requests are served one after the other
Next ==
    \/ Idle /\ started < MaxRequests /\ \E r \in UploadRequests : Start("p1", r)
    \/ Idle /\ started < MaxRequests
            /\ \E r \in ClassifyRequests : create_classification("p1", r)
    \/ \E p \in Procs : \E it \in Items(req[p].route) : LoopItem(p, it)
    \/ \E p \in Procs : WriteFile(p)
    \/ \E p \in Procs : InsertImage(p)
    \/ \E p \in Procs : Classify(p)
    \/ \E p \in Procs : Finish(p)

Spec == Init /\ [][Next]_vars

\* SpecConc: two authenticated upload requests of one element each are
\* served at the same time, their database and file operations interleaved
ConcRequests ==
    { r \in UploadRequests :
        /\ r.auth \in [scheme : {"Bearer"},
                       token : {Token(1, 2, SECRET_KEY), Token(2, 2, SECRET_KEY)}]
        /\ r.n = 1
        /\ r.stage \in {"", "stage1"} }

NextConc ==
    \/ \E p \in Procs : pc[p] = "idle" /\ started < MaxRequests
                           /\ \E r \in ConcRequests : Start(p, r)
    \/ \E p \in Procs : \E it \in Items(req[p].route) : LoopItem(p, it)
    \/ \E p \in Procs : WriteFile(p)
    \/ \E p \in Procs : InsertImage(p)
    \/ \E p \in Procs : Classify(p)
    \/ \E p \in Procs : Finish(p)

SpecConc == Init /\ [][NextConc]_vars

\* SpecCap: long batches, every element the same valid image a.jpg
CapItems(route) ==
    { it \in Items(route) :
        /\ it.name = [stem |-> "a", ext |-> ".jpg"]
        /\ it.cls \in {"", "stage1"}
        /\ IF route \in MultipartRoutes
             THEN it.blob = [seed |-> 1, len |-> 3]
             ELSE it.b64 = <<B64Part("b64", [seed |-> 1, len |-> 3])>> }

NextCap ==
    \/ Idle /\ started < MaxRequests /\ \E r \in CapRequests : Start("p1", r)
    \/ \E p \in Procs : \E it \in CapItems(req[p].route) : LoopItem(p, it)
    \/ \E p \in Procs : WriteFile(p)
    \/ \E p \in Procs : InsertImage(p)
    \/ \E p \in Procs : Classify(p)
    \/ \E p \in Procs : Finish(p)

SpecCap == Init /\ [][NextCap]_vars

\* SpecCls: the classification views, one request after the other, over
\* images that user 1 uploaded
MaxClsRequests == 4

ClsAuth ==
    { [scheme |-> "", token |-> Token(NULL, 0, "malformed")],
      [scheme |-> "Bearer", token |-> Token(1, 2, SECRET_KEY)],
      [scheme |-> "Bearer", token |-> Token(2, 2, SECRET_KEY)] }

ClsUploads ==
    { r \in UploadRequests :
        /\ r.route = "upload_single_image" /\ r.n = 1
        /\ r.auth = [scheme |-> "Bearer", token |-> Token(1, 2, SECRET_KEY)] }

ClsCreates ==
    { r \in ClassifyRequests :
        r.auth \in ClsAuth /\ r.stage \in {"stage1", "dtpi"} /\ r.image_id \in {1, 2} }

ClsUpdates == { r \in UpdateRequests : r.auth \in ClsAuth }
ClsDeletes == { r \in DeleteRequests : r.auth \in ClsAuth }
ClsGets == { r \in GetRequests : r.auth \in ClsAuth }
ClsLists == { r \in ListRequests : r.auth \in ClsAuth }

NextCls ==
    \/ Idle /\ started < MaxClsRequests /\ \E r \in ClsUploads : Start("p1", r)
    \/ Idle /\ started < MaxClsRequests /\ \E r \in ClsCreates : create_classification("p1", r)
    \/ Idle /\ started < MaxClsRequests /\ \E r \in ClsUpdates : update_classification("p1", r)
    \/ Idle /\ started < MaxClsRequests /\ \E r \in ClsDeletes : delete_classification("p1", r)
    \/ Idle /\ started < MaxClsRequests /\ \E r \in ClsGets : get_classification("p1", r)
    \/ Idle /\ started < MaxClsRequests /\ \E r \in ClsLists : list_classifications("p1", r)
    \/ \E p \in Procs : \E it \in CapItems(req[p].route) : LoopItem(p, it)
    \/ \E p \in Procs : WriteFile(p)
    \/ \E p \in Procs : InsertImage(p)
    \/ \E p \in Procs : Finish(p)

SpecCls == Init /\ [][NextCls]_vars

----------------------------------------------------------------------------
(* users/views.py: tokens *)

\* 'exp': current_time + (24 * 60 * 60)
access_token_lifetime == 24 * 60 * 60

\* generate_jwt_tokens: the access token of `user` issued at time t
generate_jwt_tokens(user, t) == Token(user.id, t + access_token_lifetime, SECRET_KEY)

\* str.strip() and str.lower()
RECURSIVE lstrip(_)
lstrip(s) == IF s # <<>> /\ Head(s) = " " THEN lstrip(Tail(s)) ELSE s

RECURSIVE rstrip(_)
rstrip(s) == IF s # <<>> /\ s[Len(s)] = " " THEN rstrip(SubSeq(s, 1, Len(s) - 1)) ELSE s

strip(s) == rstrip(lstrip(s))

str_lower(s) == [i \in 1..Len(s) |-> IF s[i] = "A" THEN "a" ELSE s[i]]

\* str.count(c), and the two halves of str.rsplit('@', 1)
count(s, c) == Cardinality({ i \in 1..Len(s) : s[i] = c })

LastIndex(s, c) == CHOOSE i \in 1..Len(s) : s[i] = c /\ \A j \in (i + 1)..Len(s) : s[j] # c

local_part(email) == SubSeq(email, 1, LastIndex(email, "@") - 1)
domain(email) == SubSeq(email, LastIndex(email, "@") + 1, Len(email))

\* the text after the last dot of a domain
tld(d) == SubSeq(d, LastIndex(d, ".") + 1, Len(d))

\* non-empty words over `chars`, separated by single dots
DotAtom(s, chars) ==
    /\ s # <<>> /\ s[1] # "." /\ s[Len(s)] # "."
    /\ \A i \in 1..Len(s) : s[i] \in chars \cup {"."}
    /\ \A i \in 1..(Len(s) - 1) : ~(s[i] = "." /\ s[i + 1] = ".")

\* django.core.validators.validate_email over the characters used here: a
\* dot-atom, '@', and a domain of two or more labels whose last has two or
\* more characters
validate_email(email) ==
    /\ count(email, "@") >= 1
    /\ DotAtom(local_part(email), Digits \cup LowerCase \cup UpperCase)
    /\ DotAtom(domain(email), Digits \cup LowerCase \cup UpperCase)
    /\ count(domain(email), ".") >= 1
    /\ Len(tld(domain(email))) >= 2

\* r'^[a-zA-Z0-9._%+-]+@[a-zA-Z0-9.-]+\.[a-zA-Z]{2,}$'
email_pattern(email) ==
    /\ count(email, "@") = 1
    /\ local_part(email) # <<>>
    /\ \A i \in 1..Len(local_part(email)) :
          local_part(email)[i] \in Digits \cup LowerCase \cup UpperCase \cup {"."}
    /\ \A i \in 1..Len(domain(email)) :
          domain(email)[i] \in Digits \cup LowerCase \cup UpperCase \cup {"."}
    /\ count(domain(email), ".") >= 1
    /\ Len(domain(email)) - Len(tld(domain(email))) >= 2
    /\ Len(tld(domain(email))) >= 2
    /\ \A i \in 1..Len(tld(domain(email))) : tld(domain(email))[i] \in LowerCase \cup UpperCase

\* a validation that accepts every address
validate_email_format_Any(raw) == ""

\* validate_email_format: the message of the first check that fails, "" when
\* the address passes them all
validate_email_format(raw) ==
    LET email == str_lower(strip(raw)) IN
    IF raw = <<>> THEN "Email is required"
    ELSE IF ~validate_email(email) THEN "Invalid email format"
    ELSE IF Len(email) < 5 THEN "Email too short"
    ELSE IF Len(email) > 254 THEN "Email too long"
    ELSE IF count(email, "@") # 1 THEN "Email must contain exactly one @ symbol"
    ELSE IF Len(local_part(email)) < 1 \/ Len(local_part(email)) > 64
      THEN "Invalid email local part length"
    ELSE IF Len(domain(email)) < 1 \/ Len(domain(email)) > 253
      THEN "Invalid email domain length"
    ELSE IF count(domain(email), ".") = 0 THEN "Domain must contain at least one dot"
    ELSE IF \E i \in 1..(Len(email) - 1) : email[i] = "." /\ email[i + 1] = "."
      THEN "Email cannot contain consecutive dots"
    ELSE IF email[1] = "." \/ email[Len(email)] = "."
      THEN "Email cannot start or end with a dot"
    ELSE IF ~email_pattern(email) THEN "Email format does not match required pattern"
    ELSE ""

\* validate_password_strength: likewise
validate_password_strength(password) ==
    IF password = <<>> THEN "Password is required"
    ELSE IF Len(password) < 8 THEN "Password must be at least 8 characters long"
    ELSE IF Len(password) > 128 THEN "Password too long (max 128 characters)"
    ELSE IF ~\E i \in 1..Len(password) : password[i] \in Digits
      THEN "Password must contain at least one digit"
    ELSE IF ~\E i \in 1..Len(password) : password[i] \in LowerCase \cup UpperCase
      THEN "Password must contain at least one letter"
    ELSE ""

\* User.objects.filter(email=email) / User.objects.get(email=email)
UserByEmail(us, email) == { u \in us : u.email = email }

\* addresses, passwords and names that clients send
EmailInputs ==
    { AliceEmail, <<" ", "A", "@", "x", ".", "c", "o", " ">>, BobEmail,
      <<"B", "@", "x", ".", "c", "o">>,
      <<"b", "@", "x">>, <<"b", "@", "@", "x", ".", "c", "o">>,
      <<"b", "@", "x", ".", ".", "c", "o">>, <<"b", " ", "@", "x", ".", "c", "o">>,
      <<"b", "@", "x", ".", "c">>, <<" ">> }

PasswordInputs ==
    { GoodPassword, <<"p", "a", "s", "s", "1">>, <<"p", "a", "s", "s", "w", "o", "r", "d">>,
      <<"1", "2", "3", "4", "5", "6", "7", "8">>, <<>> }

NameInputs == { <<"a">>, <<" ">> }

RegisterRequests ==
    [route : {"register_user"}, name : NameInputs, email : EmailInputs,
     password : PasswordInputs, auth : {[scheme |-> "", token |-> Token(NULL, 0, "malformed")]},
     user : {AnonymousUser}]

\* register_user (POST)
register_user(p, r) ==
    /\ pc[p] = "idle"
    /\ r.route = "register_user"
    /\ LET name == strip(r.name)
           email == str_lower(strip(r.email))
           message ==
               IF name = <<>> \/ email = <<>> \/ r.password = <<>> THEN "Validation failed"
               ELSE IF validate_email_format(email) # "" THEN validate_email_format(email)
               ELSE IF validate_password_strength(r.password) # ""
                 THEN validate_password_strength(r.password)
               ELSE IF UserByEmail(users, email) # {}
                 THEN "User with this email already exists"
               ELSE ""
       IN IF message = ""
            THEN /\ users' = users \cup {UserRow(nextUserId, email, r.password, FALSE)}
                 /\ nextUserId' = nextUserId + 1
                 /\ Respond(p, [NoResp EXCEPT !.status = 201, !.user_id = nextUserId])
            ELSE /\ UNCHANGED <<users, nextUserId>>
                 /\ Respond(p, [NoResp EXCEPT !.status = 400, !.message = message])
    /\ req' = [req EXCEPT ![p] = r]
    /\ started' = started + 1
    /\ log' = [log EXCEPT ![p] = <<>>]
    /\ UNCHANGED <<now, tokens, images, files, classifications, nextImageId, nextClsId,
                   idx, cur>>

\* a password check that accepts every password
check_password_Any(user, password) == TRUE

\* user.check_password(password)
check_password(user, password) == password = user.password

\* login_user requests
LoginRequests ==
    [route : {"login_user"},
     email : {AliceEmail, <<" ", "A", "@", "x", ".", "c", "o", " ">>, StaffEmail, BobEmail},
     password : {GoodPassword, OtherPassword, <<>>},
     auth : {[scheme |-> "", token |-> Token(NULL, 0, "malformed")]}, user : {AnonymousUser}]

\* login_user (POST)
login_user(p, r) ==
    /\ pc[p] = "idle"
    /\ r.route = "login_user"
    /\ LET email == str_lower(strip(r.email))
           found == UserByEmail(users, email)
           user == CHOOSE u \in found : TRUE
           status == IF email = <<>> \/ r.password = <<>> THEN 400 ELSE 401
           message == IF email = <<>> \/ r.password = <<>> THEN "Validation failed"
                      ELSE IF found = {} THEN "Invalid credentials"
                      ELSE IF ~user.is_active THEN "User account is disabled"
                      ELSE IF ~check_password(user, r.password) THEN "Invalid credentials"
                      ELSE ""
       IN IF message = ""
            THEN /\ tokens' = tokens \cup {generate_jwt_tokens(user, now)}
                 /\ users' = (users \ {user}) \cup {[user EXCEPT !.last_login = now]}
                 /\ Respond(p, [NoResp EXCEPT !.status = 200, !.user_id = user.id])
            ELSE /\ UNCHANGED <<tokens, users>>
                 /\ Respond(p, [NoResp EXCEPT !.status = status, !.message = message])
    /\ req' = [req EXCEPT ![p] = r]
    /\ started' = started + 1
    /\ log' = [log EXCEPT ![p] = <<>>]
    /\ UNCHANGED <<nextUserId, now, images, files, classifications, nextImageId, nextClsId,
                   idx, cur>>

\* tokens a client can make without the server's key: signed with another
\* key, not a JWT at all, and the empty string
ForgedTokens ==
    { Token(1, 1 + 10 * access_token_lifetime, "other-key"), Token(NULL, 0, "malformed"),
      Token(NULL, 0, "") }

\* tokens a client can present: those it was handed, and those it made
Presentable == tokens \cup ForgedTokens

VerifyRequests(ts) ==
    [route : {"verify_token"}, token : ts, auth : {NoReq.auth}, user : {AnonymousUser}]

\* verify_token (POST)
verify_token(p, r) ==
    /\ pc[p] = "idle"
    /\ r.route = "verify_token"
    /\ LET v == verify_jwt_token(r.token, now)
       IN Answer(p, r,
                 IF r.token.sig = "" THEN [NoResp EXCEPT !.status = 400,
                                                         !.message = "Token is required"]
                 ELSE IF v.error # "" THEN [NoResp EXCEPT !.status = 401, !.message = v.error]
                 ELSE IF UserById(users, v.user_id) = {}
                   THEN [NoResp EXCEPT !.status = 401, !.message = "User not found"]
                 ELSE [NoResp EXCEPT !.status = 200, !.user_id = v.user_id,
                                     !.message = "Token is valid"])
    /\ UNCHANGED classifications

\* requests to a view behind jwt_required that carry token t
HeldGets(ts) ==
    [route : {"get_classification"}, auth : [scheme : {"Bearer"}, token : ts], n : {0},
     stage : {""}, image_id : {0}, observations : {""}, id : {1}, classification : {""},
     comment : {None}, user_id : {0}]

\* an administrator clears User.is_active of user uid
Deactivate(uid) ==
    /\ \E u \in users : u.id = uid /\ u.is_active
    /\ users' = { IF u.id = uid THEN [u EXCEPT !.is_active = FALSE] ELSE u : u \in users }
    /\ UNCHANGED <<nextUserId, now, tokens, images, files, classifications, nextImageId,
                   nextClsId,
                   pc, req, idx, cur, resp, log, issued, started>>

\* the clock, in steps of twelve hours
HalfDay == 12 * 60 * 60

MaxTicks == 3

Tick ==
    /\ now < 1 + MaxTicks * HalfDay
    /\ now' = now + HalfDay
    /\ UNCHANGED <<users, nextUserId, tokens, images, files, classifications, nextImageId,
                   nextClsId,
                   pc, req, idx, cur, resp, log, issued, started>>

\* SpecAuth: logins, verifications and authenticated requests while time
\* passes and users are deactivated
MaxAuthRequests == 4

NextAuth ==
    \/ Idle /\ started < MaxAuthRequests /\ \E r \in LoginRequests : login_user("p1", r)
    \/ Idle /\ started < MaxAuthRequests
            /\ \E r \in VerifyRequests(Presentable) : verify_token("p1", r)
    \/ Idle /\ started < MaxAuthRequests
            /\ \E r \in HeldGets(Presentable) : get_classification("p1", r)
    \/ \E uid \in {1, 2} : Deactivate(uid)
    \/ Tick
    \/ \E p \in Procs : Finish(p)

SpecAuth == Init /\ [][NextAuth]_vars

----------------------------------------------------------------------------
(* users/admin_views.py *)

\* the key jwt_required_admin decodes with: the deployment exports
\* JWT_SECRET_KEY, which is also what generate_jwt_tokens signs with
ADMIN_SECRET_KEY == SECRET_KEY

\* jwt_required_admin: status 0 lets the view run with request.user
jwt_required_admin(auth, us, t) ==
    IF auth.scheme # "Bearer" THEN [status |-> 401, user |-> AnonymousUser]
    ELSE IF auth.token.sig # ADMIN_SECRET_KEY \/ auth.token.exp < t
      THEN [status |-> 401, user |-> AnonymousUser]
    ELSE IF UserById(us, auth.token.user_id) = {} THEN [status |-> 401, user |-> AnonymousUser]
    ELSE LET user == CHOOSE u \in UserById(us, auth.token.user_id) : TRUE
         IN IF ~user.is_staff THEN [status |-> 403, user |-> AnonymousUser]
            ELSE [status |-> 0, user |-> user]

\* a token whose expiry lies before the initial time
ExpiredTokens == { Token(2, 0, SECRET_KEY) }

\* requests to the admin views with a token of ts, a token the server never
\* signed, an expired one, or no Bearer header at all
AdminRequests(ts) ==
    [route : {"get_metrics", "list_admin_users"},
     auth : { [scheme |-> "", token |-> Token(NULL, 0, "malformed")],
              [scheme |-> "Basic", token |-> Token(2, 2, SECRET_KEY)] }
            \cup [scheme : {"Bearer"}, token : ts \cup ForgedTokens \cup ExpiredTokens],
     user : {AnonymousUser}]

\* a grouping that reports every stage of the enumeration with the total
classifications_by_stage_AllChoices(rows) ==
    [s \in CLASSIFICATION_CHOICES |-> Cardinality(rows)]

\* Classification.objects.values('stage').annotate(count=Count('stage'))
classifications_by_stage(rows) ==
    [s \in { c.stage : c \in rows } |-> Cardinality({ c \in rows : c.stage = s })]

\* the body of the 200 response of get_metrics
Metrics ==
    [status |-> 200, results |-> <<>>, classified |-> <<>>, errors |-> <<>>,
     listed |-> {}, user_id |-> 0, message |-> "",
     total_users |-> Cardinality(users),
     total_images |-> Cardinality(images),
     total_classifications |-> Cardinality(classifications),
     classifications_by_stage |-> classifications_by_stage(classifications)]

\* get_metrics (GET)
get_metrics(p, r) ==
    /\ pc[p] = "idle"
    /\ r.route = "get_metrics"
    /\ LET gate == jwt_required_admin(r.auth, users, now)
       IN Answer(p, [r EXCEPT !.user = gate.user],
                 IF gate.status # 0 THEN [NoResp EXCEPT !.status = gate.status] ELSE Metrics)
    /\ UNCHANGED classifications

\* list_admin_users (GET): the loop reads user.institution, which is not a
\* field of User, so the first row raises AttributeError
list_admin_users(p, r) ==
    /\ pc[p] = "idle"
    /\ r.route = "list_admin_users"
    /\ LET gate == jwt_required_admin(r.auth, users, now)
       IN Answer(p, [r EXCEPT !.user = gate.user],
                 IF gate.status # 0 THEN [NoResp EXCEPT !.status = gate.status]
                 ELSE IF users # {} THEN [NoResp EXCEPT !.status = 500]
                 ELSE [NoResp EXCEPT !.status = 200])
    /\ UNCHANGED classifications

\* SpecAdmin: logins of users 1 and 2, an upload and classifications by
\* user 1, and requests to the admin views, one request after the other
MaxAdminRequests == 4

AdminLogins ==
    { r \in LoginRequests : r.email \in {AliceEmail, StaffEmail} /\ r.password = GoodPassword }

AdminCreates ==
    { r \in ClassifyRequests :
        /\ r.auth = [scheme |-> "Bearer", token |-> Token(1, 2, SECRET_KEY)]
        /\ r.stage \in {"stage1", "dtpi"} /\ r.image_id = 1 /\ r.observations = "" }

NextAdmin ==
    \/ Idle /\ started < MaxAdminRequests /\ \E r \in AdminLogins : login_user("p1", r)
    \/ Idle /\ started < MaxAdminRequests /\ \E r \in ClsUploads : Start("p1", r)
    \/ Idle /\ started < MaxAdminRequests
            /\ \E r \in AdminCreates : create_classification("p1", r)
    \/ Idle /\ started < MaxAdminRequests
            /\ \E r \in AdminRequests(tokens) : get_metrics("p1", r)
    \/ Idle /\ started < MaxAdminRequests
            /\ \E r \in AdminRequests(tokens) : list_admin_users("p1", r)
    \/ \E p \in Procs : \E it \in CapItems(req[p].route) : LoopItem(p, it)
    \/ \E p \in Procs : WriteFile(p)
    \/ \E p \in Procs : InsertImage(p)
    \/ \E p \in Procs : Finish(p)

SpecAdmin == Init /\ [][NextAdmin]_vars

----------------------------------------------------------------------------
(* Deletion through the ORM: the foreign keys of Image and Classification *)

\* a deletion that cascades from the user to the images they uploaded
delete_user_CascadeImages(uid) ==
    /\ \E u \in users : u.id = uid
    /\ users' = { u \in users : u.id # uid }
    /\ images' = { i \in images : i.uploaded_by # uid }
    /\ classifications' =
          { c \in classifications :
              c.user # uid /\ \E i \in images : i.id = c.image /\ i.uploaded_by # uid }
    /\ UNCHANGED <<nextUserId, now, tokens, files, nextImageId, nextClsId, pc, req, idx,
                   cur, resp, log, issued, started>>

\* User.delete(): Image.uploaded_by is SET_NULL, Classification.user is
\* CASCADE; files and tokens are not touched
delete_user(uid) ==
    /\ \E u \in users : u.id = uid
    /\ users' = { u \in users : u.id # uid }
    /\ images' = { IF i.uploaded_by = uid THEN [i EXCEPT !.uploaded_by = NULL] ELSE i :
                   i \in images }
    /\ classifications' = { c \in classifications : c.user # uid }
    /\ UNCHANGED <<nextUserId, now, tokens, files, nextImageId, nextClsId, pc, req, idx,
                   cur, resp, log, issued, started>>

\* a deletion of the image row alone
delete_image_RowOnly(id) ==
    /\ \E i \in images : i.id = id
    /\ images' = { i \in images : i.id # id }
    /\ UNCHANGED <<users, nextUserId, now, tokens, files, classifications, nextImageId,
                   nextClsId, pc, req, idx, cur, resp, log, issued, started>>

\* Image.delete(): Classification.image is CASCADE; the file stays on disk
delete_image(id) ==
    /\ \E i \in images : i.id = id
    /\ images' = { i \in images : i.id # id }
    /\ classifications' = { c \in classifications : c.image # id }
    /\ UNCHANGED <<users, nextUserId, now, tokens, files, nextImageId, nextClsId, pc, req,
                   idx, cur, resp, log, issued, started>>

\* SpecOrm: uploads and classifications of users 1 and 2, one request after
\* the other, with users and images deleted in between
MaxOrmRequests == 3

OrmAuth ==
    [scheme : {"Bearer"}, token : {Token(1, 2, SECRET_KEY), Token(2, 2, SECRET_KEY)}]

OrmUploads ==
    { r \in UploadRequests :
        /\ r.route \in {"upload_single_image", "upload_with_stage"}
        /\ r.n = 1 /\ r.stage \in {"", "stage1"} /\ r.auth \in OrmAuth }

OrmCreates ==
    { r \in ClassifyRequests :
        /\ r.auth \in OrmAuth /\ r.stage = "stage1" /\ r.image_id \in {1, 2}
        /\ r.observations = "" }

OrmLists == { r \in ListRequests : r.auth \in OrmAuth /\ r.user_id = 0 }

OrmAdminRequests ==
    { r \in AdminRequests({Token(2, 2, SECRET_KEY)}) :
        r.auth = [scheme |-> "Bearer", token |-> Token(2, 2, SECRET_KEY)] }

OrmItems(route) ==
    { it \in Items(route) : it.name = [stem |-> "a", ext |-> ".jpg"] /\ it.blob.len <= max_size }

NextOrm ==
    \/ Idle /\ started < MaxOrmRequests /\ \E r \in OrmUploads : Start("p1", r)
    \/ Idle /\ started < MaxOrmRequests /\ \E r \in OrmCreates : create_classification("p1", r)
    \/ Idle /\ started < MaxOrmRequests
            /\ \E r \in OrmLists : list_classifications("p1", r)
    \/ Idle /\ started < MaxOrmRequests
            /\ \E r \in OrmAdminRequests : get_metrics("p1", r)
    \/ Idle /\ \E uid \in {1, 2} : delete_user(uid)
    \/ Idle /\ \E id \in {1, 2} : delete_image(id)
    \/ \E p \in Procs : \E it \in OrmItems(req[p].route) : LoopItem(p, it)
    \/ \E p \in Procs : WriteFile(p)
    \/ \E p \in Procs : InsertImage(p)
    \/ \E p \in Procs : Classify(p)
    \/ \E p \in Procs : Finish(p)

SpecOrm == Init /\ [][NextOrm]_vars

\* SpecReg: registrations, logins and verifications, one request after the
\* other, while time passes and user 1 is deactivated
MaxRegRequests == 3

NextReg ==
    \/ Idle /\ started < MaxRegRequests /\ \E r \in RegisterRequests : register_user("p1", r)
    \/ Idle /\ started < MaxRegRequests /\ \E r \in LoginRequests : login_user("p1", r)
    \/ Idle /\ started < MaxRegRequests
            /\ \E r \in VerifyRequests(Presentable) : verify_token("p1", r)
    \/ Deactivate(1)
    \/ Tick
    \/ \E p \in Procs : Finish(p)

SpecReg == Init /\ [][NextReg]_vars

----------------------------------------------------------------------------
\* SpecStage: the views that write or rewrite a stage - create_classification,
\* the uploads that classify, update_classification - one request after the
\* other, with and without the token of user 1, over the image a.jpg
MaxStageRequests == 3

StageAuth ==
    { [scheme |-> "", token |-> Token(NULL, 0, "malformed")],
      [scheme |-> "Bearer", token |-> Token(1, 2, SECRET_KEY)] }

StageUploads ==
    { r \in UploadRequests : r.route \in ClassifyingRoutes /\ r.n = 1 /\ r.auth \in StageAuth }

StageCreates ==
    { r \in ClassifyRequests : r.auth \in StageAuth /\ r.image_id = 1 /\ r.observations = "" }

StageUpdates ==
    { r \in UpdateRequests : r.auth \in StageAuth /\ r.id = 1 /\ r.stage = "" }

StageItems(route) ==
    { it \in Items(route) :
        /\ it.name = [stem |-> "a", ext |-> ".jpg"]
        /\ IF route \in MultipartRoutes
             THEN it.blob = [seed |-> 1, len |-> 3]
             ELSE it.b64 = <<B64Part("b64", [seed |-> 1, len |-> 3])>> }

NextStage ==
    \/ Idle /\ started < MaxStageRequests /\ \E r \in StageUploads : Start("p1", r)
    \/ Idle /\ started < MaxStageRequests
            /\ \E r \in StageCreates : create_classification("p1", r)
    \/ Idle /\ started < MaxStageRequests
            /\ \E r \in StageUpdates : update_classification("p1", r)
    \/ \E p \in Procs : \E it \in StageItems(req[p].route) : LoopItem(p, it)
    \/ \E p \in Procs : WriteFile(p)
    \/ \E p \in Procs : InsertImage(p)
    \/ \E p \in Procs : Classify(p)
    \/ \E p \in Procs : Finish(p)

SpecStage == Init /\ [][NextStage]_vars

----------------------------------------------------------------------------
(* Properties *)

\* Authorization header that carries a token signed by the server and not
\* yet expired
Authenticated(auth) ==
    /\ auth.scheme = "Bearer"
    /\ auth.token.sig = "server-secret"
    /\ auth.token.exp >= now

RowsWithHash(h) == { i \in images : i.file_hash = h }

\* C1: in every reachable state, whatever upload routes ran and however
\* their steps interleaved, no two Image rows have the same file_hash.
C1_HashUnique ==
    \A a, b \in images : a.file_hash = b.file_hash => a.id = b.id

\* C1 witness: two requests missed the lookup for the same content and both
\* reached the insert; one row exists and the other insert was refused.
C1_Witness ==
    \E p \in Procs : \E k \in DOMAIN log[p] :
        /\ log[p][k].outcome = "IntegrityError"
        /\ log[p][k].writes = 1
        /\ Cardinality(RowsWithHash(log[p][k].file_hash)) = 1

\* C2: a request whose insert is refused by the uniqueness constraint on
\* file_hash completes successfully and returns the winning request's image;
\* it never ends in an error response.
C2_ConflictIsDedupHit ==
    \A p \in Procs : \A k \in DOMAIN log[p] :
        (pc[p] = "done" /\ log[p][k].outcome = "IntegrityError")
            => /\ resp[p].status \in {200, 201}
               /\ \E j \in DOMAIN resp[p].results :
                      resp[p].results[j].id \in
                          { i.id : i \in RowsWithHash(log[p][k].file_hash) }

\* C3: served one after the other, every upload of a byte sequence returns
\* the same image id, whoever uploads it and under whatever name, and
\* exactly one Image row has its hash: the ids returned for one hash agree,
\* and a single upload of content that passed the checks succeeds with the
\* id of the one row that holds its hash.
C3_Idempotent ==
    /\ \A x, y \in issued : x.file_hash = y.file_hash => x.id = y.id
    /\ \A x \in issued : { i.id : i \in RowsWithHash(x.file_hash) } = {x.id}
    /\ \A p \in Procs :
          (pc[p] = "done" /\ req[p].route \in {"upload_single_image", "upload_base64_image"}
             /\ Len(log[p]) = 1 /\ log[p][1].file_hash # 0)
          => /\ resp[p].status \in {200, 201}
             /\ Len(resp[p].results) = 1
             /\ { i.id : i \in RowsWithHash(log[p][1].file_hash) } = {resp[p].results[1].id}

\* C3 witness: a second upload of stored content, by another user than the
\* one who stored it, has returned the id of the stored row.
C3_Witness ==
    \E p \in Procs : \E i \in images :
        /\ pc[p] = "done"
        /\ req[p].route \in {"upload_single_image", "upload_base64_image"}
        /\ Len(log[p]) = 1 /\ Len(resp[p].results) = 1
        /\ log[p][1].outcome = "existing"
        /\ i.file_hash = log[p][1].file_hash
        /\ resp[p].results[1].id = i.id
        /\ i.uploaded_by # req[p].user.id
        /\ [file_hash |-> i.file_hash, id |-> i.id] \in issued

C4_State ==
    \A p \in Procs :
        /\ pc[p] \in {"write", "insert"} => RowsWithHash(cur[p].file_hash) = {}
        /\ cur[p].writes <= 1 /\ cur[p].inserts <= 1
        /\ \A k \in DOMAIN log[p] :
              /\ log[p][k].writes <= 1 /\ log[p][k].inserts <= 1
              /\ log[p][k].existing # 0 =>
                    (log[p][k].writes = 0 /\ log[p][k].inserts = 0)

\* C4: served one after the other, an upload whose hash matches a stored
\* row never reaches the file write or the insert, no element is written or
\* inserted more than once, and no step changes or removes a stored row.
C4_DedupHitFrame ==
    /\ []C4_State
    /\ [][\A i \in images : i \in images']_vars

\* C4 witness: an element was answered from a stored row, with no file
\* write and no insert, and the row is there.
C4_Witness ==
    \E p \in Procs : \E k \in DOMAIN log[p] : \E i \in images :
        /\ log[p][k].existing = i.id
        /\ i.file_hash = log[p][k].file_hash
        /\ log[p][k].writes = 0 /\ log[p][k].inserts = 0

NoEffects(p) ==
    \A k \in DOMAIN log[p] :
        log[p][k].writes = 0 /\ log[p][k].inserts = 0 /\ log[p][k].classification = 0

\* C5: a request whose Authorization header is absent, is not a Bearer
\* header, or carries a token that fails verification is answered 401, writes
\* no file, inserts no Image and no Classification, and returns no data.
C5_Unauthenticated401 ==
    \A p \in Procs :
        (pc[p] = "done" /\ ~Authenticated(req[p].auth))
            => /\ resp[p].status = 401
               /\ NoEffects(p)
               /\ resp[p].results = <<>> /\ resp[p].classified = <<>>

\* C6: on every upload route an element that is missing, longer than
\* 10 MiB, or named with an extension outside the allow-list is rejected,
\* and the handler writes no file and inserts no row for it.
C6_InvalidPayloadRejected ==
    \A p \in Procs :
        req[p].route # "create_classification" =>
            \A k \in DOMAIN log[p] :
                (~log[p][k].present \/ ~log[p][k].size_ok \/ ~log[p][k].ext_ok)
                    => /\ log[p][k].outcome = "invalid"
                       /\ log[p][k].writes = 0 /\ log[p][k].inserts = 0

StageEnumeration == {"stage1", "stage2", "stage3", "stage4", "not_classifiable", "dtpi"}

C8_UploadClassifyAtomic ==
    \A p \in Procs :
        (pc[p] = "done" /\ req[p].route \in
            {"upload_with_stage", "upload_with_classification_multipart",
             "upload_with_classification_json"})
        => \A k \in DOMAIN log[p] :
              \/ /\ \E i \in images : i.id = log[p][k].image
                 /\ \E c \in classifications :
                        c.id = log[p][k].classification /\ c.image = log[p][k].image
              \/ log[p][k].writes = 0 /\ log[p][k].inserts = 0

\* C9: an authenticated upload_with_stage request with n valid images and a
\* valid stage is answered 201 with n entries in 'classified', one
\* Classification with that stage per image, attached to the stored row
\* when the content was already stored (and then no Image is inserted).
C9_StagePerImage ==
    \A p \in Procs :
        (/\ pc[p] = "done" /\ req[p].route = "upload_with_stage"
         /\ Authenticated(req[p].auth)
         /\ req[p].stage \in StageEnumeration
         /\ req[p].n >= 1
         /\ Len(log[p]) = req[p].n
         /\ \A k \in DOMAIN log[p] :
               log[p][k].present /\ log[p][k].ext_ok /\ log[p][k].size_ok)
        => /\ resp[p].status = 201
           /\ Len(resp[p].classified) = req[p].n
           /\ \A k \in DOMAIN log[p] :
                 /\ \E c \in classifications :
                       /\ c.id = log[p][k].classification
                       /\ c.image = log[p][k].image
                       /\ c.stage = req[p].stage
                 /\ log[p][k].existing # 0 =>
                       (log[p][k].inserts = 0 /\ log[p][k].image = log[p][k].existing)

\* C10: a batch upload that is answered 200/201 has run its loop body for
\* every element and reports one outcome (success, duplicate or error) per
\* element.
C10_BatchOutcomes ==
    \A p \in Procs :
        (/\ pc[p] = "done"
         /\ req[p].route \in {"upload_batch_images", "upload_batch_base64_images"}
         /\ resp[p].status \in {200, 201})
        => /\ Len(log[p]) = req[p].n
           /\ Len(resp[p].results) + Len(resp[p].errors) = req[p].n

\* C11: a request with more than 20 elements, on any batch route, is
\* answered 400 before its loop starts: no element is processed, no file is
\* written and no Image or Classification is created for it.
C11_BatchCap ==
    \A p \in Procs :
        req[p].n > 20 =>
            /\ pc[p] = "done"
            /\ resp[p].status = 400
            /\ log[p] = <<>> /\ cur[p] = NoCur

\* the request that process p accepts in this step, on route `route`
Accepts(p, route) ==
    pc[p] = "idle" /\ pc'[p] = "done" /\ req'[p].route = route

ReferencesTo(rows, image) == { c \in rows : c.image = image }

\* C12: an authenticated create_classification with a stage of the
\* enumeration for a stored image that already has classifications (by the
\* same user or by another) is answered 201 and adds one more row
\* referencing that image, under an id no other row has; rows never share
\* an id, and the image row stays the one it was.
C12_NoUniquePerUserImage ==
    [][\A p \in Procs :
          (/\ Accepts(p, "create_classification")
           /\ Authenticated(req'[p].auth)
           /\ req'[p].stage \in StageEnumeration
           /\ \E i \in images : i.id = req'[p].image_id
           /\ ReferencesTo(classifications, req'[p].image_id) # {})
          => /\ resp'[p].status = 201
             /\ Cardinality(ReferencesTo(classifications', req'[p].image_id))
                  = Cardinality(ReferencesTo(classifications, req'[p].image_id)) + 1
             /\ \A a, b \in classifications' : a.id = b.id => a = b
             /\ images' = images]_vars

\* C12 witness: one user has classified one stored image twice, and both
\* rows are there.
C12_Witness ==
    \E a, b \in classifications : \E i \in images :
        /\ a.id # b.id /\ a.user = b.user /\ a.stage = b.stage
        /\ a.image = i.id /\ b.image = i.id

\* C13: an authenticated create_classification with a stage of the
\* enumeration and an image_id that no Image row has is answered 404 and
\* leaves the Classification rows as they were.
C13_ImageNotFound ==
    [][\A p \in Procs :
          (/\ Accepts(p, "create_classification")
           /\ Authenticated(req'[p].auth)
           /\ req'[p].stage \in StageEnumeration
           /\ req'[p].image_id # 0
           /\ ~ \E i \in images : i.id = req'[p].image_id)
          => /\ resp'[p].status = 404
             /\ classifications' = classifications]_vars

\* C13 witness: with an image stored, a classification of an id that is not
\* stored has been answered 404.
C13_Witness ==
    \E p \in Procs :
        /\ pc[p] = "done" /\ req[p].route = "create_classification"
        /\ resp[p].status = 404
        /\ req[p].stage = "stage1"
        /\ images # {}
        /\ \A i \in images : i.id # req[p].image_id

\* C14: a create_classification answered 201 inserts exactly one row, with
\* the image, stage and observations of the request and the requester as
\* user, and leaves every Image row, every other Classification row and
\* the files unchanged.
C14_ClassifyFrame ==
    [][\A p \in Procs :
          (Accepts(p, "create_classification") /\ resp'[p].status = 201)
          => /\ \E k \in classifications' :
                   /\ k \notin classifications
                   /\ classifications' = classifications \cup {k}
                   /\ k.image = req'[p].image_id
                   /\ k.stage = req'[p].stage
                   /\ k.observations = req'[p].observations
                   /\ k.user = req'[p].auth.token.user_id
             /\ images' = images
             /\ files' = files]_vars

\* C14 witness: a classification carrying an observation has been created
\* next to an earlier one.
C14_Witness ==
    \E p \in Procs : \E k, c \in classifications :
        /\ pc[p] = "done" /\ req[p].route = "create_classification"
        /\ resp[p].status = 201
        /\ req[p].observations = "note"
        /\ k.id = resp[p].classified[1].id /\ k.observations = "note"
        /\ c.id # k.id

Requester(auth) == { u \in users : u.id = auth.token.user_id }

\* C15: an authenticated update_classification of a stored record by a user
\* who is neither its author nor staff is answered 403 and leaves the
\* Classification rows as they were.
C15_UpdateForbidden ==
    [][\A p \in Procs :
          (/\ Accepts(p, "update_classification")
           /\ Authenticated(req'[p].auth)
           /\ \E c \in classifications :
                 /\ c.id = req'[p].id
                 /\ c.user # req'[p].auth.token.user_id
           /\ \A u \in Requester(req'[p].auth) : ~u.is_staff)
          => /\ resp'[p].status = 403
             /\ classifications' = classifications]_vars

\* C15 witness: user 1, who is not staff, asked to set the stage of a record
\* that user 2 wrote, and was answered 403.
C15_Witness ==
    \E p \in Procs : \E c \in classifications :
        /\ pc[p] = "done" /\ req[p].route = "update_classification"
        /\ resp[p].status = 403
        /\ req[p].classification = "dtpi"
        /\ req[p].auth.token.user_id = 1
        /\ c.id = req[p].id /\ c.user = 2

\* C16: after an update_classification answered 200, the stored record has
\* the stage and the observations that the request supplied.
C16_UpdateApplies ==
    \A p \in Procs :
        (pc[p] = "done" /\ req[p].route = "update_classification" /\ resp[p].status = 200)
        => \E c \in classifications :
              /\ c.id = req[p].id
              /\ req[p].classification # "" => c.stage = req[p].classification
              /\ req[p].comment # "<None>" => c.observations = req[p].comment

\* C17: an authenticated delete_classification is answered 404 when no
\* record has the id, 403 when the requester is neither the author nor
\* staff, and otherwise removes that record and nothing else; Image rows
\* and files are never touched.
C17_Delete ==
    [][\A p \in Procs :
          (Accepts(p, "delete_classification") /\ Authenticated(req'[p].auth))
          => LET target == { c \in classifications : c.id = req'[p].id }
                 allowed == \A c \in target :
                               \/ c.user = req'[p].auth.token.user_id
                               \/ \E u \in Requester(req'[p].auth) : u.is_staff
             IN /\ images' = images /\ files' = files
                /\ IF target = {}
                     THEN resp'[p].status = 404 /\ classifications' = classifications
                   ELSE IF allowed
                     THEN /\ resp'[p].status = 200
                          /\ classifications' = classifications \ target
                          /\ Cardinality(target) = 1
                   ELSE resp'[p].status = 403 /\ classifications' = classifications]_vars

\* C17 witness: the staff user deleted a record of user 1, and a record
\* with another id is still stored.
C17_Witness ==
    \E p \in Procs :
        /\ pc[p] = "done" /\ req[p].route = "delete_classification"
        /\ resp[p].status = 200
        /\ req[p].auth.token.user_id = 2
        /\ classifications # {}
        /\ \A c \in classifications : c.id # req[p].id /\ c.user = 1

C19_TokenVerification ==
    [][\A p \in Procs :
          /\ (Accepts(p, "login_user") /\ resp'[p].status = 200)
               => tokens' = tokens \cup { [user_id |-> resp'[p].user_id,
                                           exp |-> now + 86400,
                                           sig |-> "server-secret"] }
          /\ Accepts(p, "verify_token") =>
               LET t == req'[p].token
               IN /\ resp'[p].status = 200
                       <=> (t.sig = "server-secret" /\ now <= t.exp)
                  /\ resp'[p].status = 200
                       => (resp'[p].user_id = t.user_id /\ t \in tokens)
                  /\ (t.sig = "server-secret" /\ now > t.exp)
                       => /\ resp'[p].status = 401
                          /\ resp'[p].message = "Token expired"
                          /\ resp'[p].user_id = 0
                  /\ t.sig \in {"other-key", "malformed"}
                       => /\ resp'[p].status = 401
                          /\ resp'[p].message = "Invalid token"
                          /\ resp'[p].user_id = 0]_vars

\* C19 witness: a token that login_user issued has been presented after
\* its expiry and refused as expired.
C19_Witness ==
    \E p \in Procs :
        /\ pc[p] = "done" /\ req[p].route = "verify_token"
        /\ req[p].token \in tokens
        /\ now > req[p].token.exp
        /\ resp[p].status = 401 /\ resp[p].message = "Token expired"

\* C20: a token that login_user issued is accepted by verify_token and by
\* a view behind jwt_required for as long as its expiry has not passed,
\* whether or not its user is still active; tokens are never withdrawn; and
\* login_user answers a deactivated user who sends a password 401 and
\* issues no token.
C20_NoRevocation ==
    [][/\ tokens \subseteq tokens'
       /\ \A p \in Procs :
          /\ (/\ Accepts(p, "verify_token")
              /\ req'[p].token \in tokens /\ now <= req'[p].token.exp)
               => resp'[p].status = 200 /\ resp'[p].user_id = req'[p].token.user_id
          /\ (/\ Accepts(p, "get_classification")
              /\ req'[p].auth.token \in tokens /\ now <= req'[p].auth.token.exp)
               => resp'[p].status # 401 /\ req'[p].user.id = req'[p].auth.token.user_id
          /\ (/\ Accepts(p, "login_user")
              /\ req'[p].password # <<>>
              /\ \E u \in users : u.email = str_lower(strip(req'[p].email))
                                   /\ ~u.is_active)
               => resp'[p].status = 401 /\ tokens' = tokens]_vars

\* C20 witness: a user who was deactivated after login has been served by a
\* view behind jwt_required on the token issued before.
C20_Witness ==
    \E p \in Procs : \E u \in users :
        /\ pc[p] = "done" /\ req[p].route = "get_classification"
        /\ req[p].auth.token \in tokens
        /\ u.id = req[p].auth.token.user_id /\ ~u.is_active
        /\ resp[p].status = 404
        /\ req[p].user.id = u.id


\* C21: deleting a user leaves every image that user uploaded in the table,
\* with uploaded_by cleared to NULL and nothing else of the row changed,
\* leaves every other image as it was, and deletes no classification whose
\* author is another user.
C21_UserDeletionSetsNull ==
    [][\A u \in users :
          (\A v \in users' : v.id # u.id) =>
             /\ \A i \in images :
                   IF i.uploaded_by = u.id
                     THEN [i EXCEPT !.uploaded_by = NULL] \in images'
                     ELSE i \in images'
             /\ Cardinality(images') = Cardinality(images)
             /\ \A c \in classifications : c.user # u.id => c \in classifications']_vars

\* C21 witness: user 1 has been deleted; the image they uploaded is still
\* there without an owner, and so is the classification user 2 made of it.
C21_Witness ==
    /\ \A u \in users : u.id # 1
    /\ \E i \in images :
          /\ i.uploaded_by = NULL
          /\ \E c \in classifications : c.image = i.id /\ c.user = 2

\* C22: deleting an image removes every classification that references
\* it, and in every reachable state every classification references
\* exactly one image row and exactly one user row.
C22_ReferentialIntegrity ==
    /\ [](\A c \in classifications :
             /\ Cardinality({ i \in images : i.id = c.image }) = 1
             /\ Cardinality({ u \in users : u.id = c.user }) = 1)
    /\ [][\A i \in images :
             (\A j \in images' : j.id # i.id) =>
                \A c \in classifications' : c.image # i.id]_vars

\* C22 witness: image 1 was classified and then deleted; no classification
\* is left although classification 1 had been created.
C22_Witness ==
    /\ nextClsId > 1
    /\ nextImageId > 1
    /\ \A i \in images : i.id # 1
    /\ classifications = {}
    /\ Cardinality(users) = 2


\* addresses that are not well-formed after trimming and lower-casing, and
\* passwords that are too short or lack a digit or a letter
MalformedEmails ==
    { <<"b", "@", "x">>, <<"b", "@", "@", "x", ".", "c", "o">>,
      <<"b", "@", "x", ".", ".", "c", "o">>, <<"b", " ", "@", "x", ".", "c", "o">>,
      <<"b", "@", "x", ".", "c">> }

WeakPasswords ==
    { <<"p", "a", "s", "s", "1">>, <<"p", "a", "s", "s", "w", "o", "r", "d">>,
      <<"1", "2", "3", "4", "5", "6", "7", "8">> }

\* C23: a registration whose trimmed, lower-cased address is that of an
\* existing user, whose address is malformed or whose password is weak is
\* answered 400 and leaves the users as they were; a registration answered
\* 201 adds one user with the trimmed, lower-cased address; and in every
\* reachable state no two users have the same address.
C23_RegistrationRejects ==
    /\ [](\A u, v \in users : u.email = v.email => u = v)
    /\ [][\A p \in Procs :
             Accepts(p, "register_user") =>
                LET email == str_lower(strip(req'[p].email))
                IN /\ (\/ \E u \in users : u.email = email
                       \/ req'[p].email \in MalformedEmails
                       \/ req'[p].password \in WeakPasswords)
                         => /\ resp'[p].status = 400
                            /\ users' = users
                   /\ resp'[p].status \in {201, 400}
                   /\ resp'[p].status = 201
                         => /\ \A u \in users : u.email # email
                            /\ \E u \in users' : /\ u.email = email
                                                 /\ users' = users \cup {u}]_vars

\* C23 witness: B@x.co was registered as b@x.co, and a second registration
\* of b@x.co has been answered 400 with still three users.
C23_Witness ==
    \E p \in Procs :
        /\ pc[p] = "done" /\ req[p].route = "register_user"
        /\ req[p].email = BobEmail /\ req[p].password = GoodPassword
        /\ resp[p].status = 400
        /\ resp[p].message = "User with this email already exists"
        /\ Cardinality(users) = 3
        /\ \E u \in users : u.email = BobEmail /\ u.id = 3


\* C24: login_user issues a token only when the trimmed, lower-cased
\* address is that of an existing active user and the password is theirs;
\* the token then verifies to that user's id. With a wrong password or an
\* address nobody registered it answers 401, issues no token and leaves
\* last_login (and every other user field) as it was.
C24_LoginIssuesToken ==
    [][\A p \in Procs :
          Accepts(p, "login_user") =>
             LET email == str_lower(strip(req'[p].email))
                 known == { u \in users : u.email = email }
                 right == { u \in known : u.is_active /\ u.password = req'[p].password }
             IN /\ resp'[p].status = 200 <=> right # {}
                /\ resp'[p].status # 200 => tokens' = tokens
                /\ resp'[p].status = 200
                     => \E t \in tokens' : \E u \in right :
                           /\ tokens' = tokens \cup {t}
                           /\ t.user_id = u.id /\ t.sig = "server-secret"
                           /\ t.exp >= now
                           /\ resp'[p].user_id = u.id
                           /\ verify_jwt_token(t, now) = [user_id |-> u.id, error |-> ""]
                /\ (/\ req'[p].password # <<>>
                    /\ \/ known = {}
                       \/ \E u \in known : u.password # req'[p].password)
                     => /\ resp'[p].status = 401
                        /\ tokens' = tokens
                        /\ users' = users]_vars

\* C24 witness: user 1 logged in at time 1; half a day later a login with
\* their address and a wrong password has been answered 401, and their
\* last_login is still 1.
C24_Witness ==
    \E p \in Procs : \E u \in users :
        /\ pc[p] = "done" /\ req[p].route = "login_user"
        /\ req[p].email = AliceEmail /\ req[p].password = OtherPassword
        /\ resp[p].status = 401
        /\ u.email = AliceEmail /\ u.last_login = 1 /\ now > 1
        /\ Cardinality(tokens) = 1


\* C25: an admin view answers 200 to a token that login_user issued to a
\* staff user, 403 to a token that login_user issued to a user who is not
\* staff, and 401 when the header is missing or not a Bearer header or the
\* token is not one the server signed or has expired.
C25_AdminGate ==
    [][\A p \in Procs :
          (Accepts(p, "get_metrics") \/ Accepts(p, "list_admin_users")) =>
             LET auth == req'[p].auth
                 holder == { u \in users : u.id = auth.token.user_id }
             IN IF auth.scheme = "Bearer" /\ auth.token \in tokens
                  THEN /\ (\E u \in holder : u.is_staff) => resp'[p].status = 200
                       /\ (\E u \in holder : ~u.is_staff) => resp'[p].status = 403
                  ELSE resp'[p].status = 401]_vars

\* the sum of the values of a function with a finite domain
RECURSIVE SumOf(_)
SumOf(f) ==
    IF DOMAIN f = {} THEN 0
    ELSE LET s == CHOOSE x \in DOMAIN f : TRUE
         IN f[s] + SumOf([x \in DOMAIN f \ {s} |-> f[x]])

\* C26: get_metrics changes no user, image or classification; when it
\* answers 200 its total_users, total_images and total_classifications are
\* the numbers of rows of the three tables, and the counts of
\* classifications_by_stage add up to total_classifications.
C26_MetricsExact ==
    [][\A p \in Procs :
          Accepts(p, "get_metrics") =>
             /\ users' = users /\ images' = images /\ classifications' = classifications
             /\ files' = files
             /\ resp'[p].status = 200 =>
                   /\ resp'[p].total_users = Cardinality(users)
                   /\ resp'[p].total_images = Cardinality(images)
                   /\ resp'[p].total_classifications = Cardinality(classifications)
                   /\ SumOf(resp'[p].classifications_by_stage)
                        = resp'[p].total_classifications
                   /\ \A s \in DOMAIN resp'[p].classifications_by_stage :
                         resp'[p].classifications_by_stage[s]
                           = Cardinality({ c \in classifications : c.stage = s })]_vars

\* C26 witness: the staff user has been answered the metrics of a database
\* with two users, one image and one classification.
C26_Witness ==
    \E p \in Procs :
        /\ pc[p] = "done" /\ req[p].route = "get_metrics"
        /\ req[p].auth.token \in tokens
        /\ resp[p].status = 200
        /\ resp[p].total_users = 2 /\ resp[p].total_images = 1
        /\ resp[p].total_classifications = 1
        /\ DOMAIN resp[p].classifications_by_stage = {"dtpi"}


C28_WrittenBeforeInserted ==
    /\ [](\A i \in images :
             /\ i.file_path = [dir |-> "images", hash |-> i.file_hash,
                               ext |-> lower(i.original_filename.ext)]
             /\ \E f \in files :
                   /\ f.path = i.file_path
                   /\ calculate_file_hash(f.content) = i.file_hash
                   /\ f.content.len = i.file_size)
    /\ [][\A i \in images' :
             i \notin images =>
                \E f \in files : /\ f.path = i.file_path
                                 /\ calculate_file_hash(f.content) = i.file_hash]_vars

\* C28 with the path that save_image_from_content gives a name without
\* extension
C28_DefaultExtension ==
    /\ [](\A i \in images :
             /\ i.file_path \in
                   { [dir |-> "images", hash |-> i.file_hash, ext |-> e] :
                       e \in IF i.original_filename.ext = ""
                             THEN {".jpg"} ELSE {lower(i.original_filename.ext)} }
             /\ \E f \in files :
                   /\ f.path = i.file_path
                   /\ calculate_file_hash(f.content) = i.file_hash
                   /\ f.content.len = i.file_size)
    /\ [][\A i \in images' :
             i \notin images =>
                \E f \in files : /\ f.path = i.file_path
                                 /\ calculate_file_hash(f.content) = i.file_hash]_vars


\* C29: a request that carries the token of a user whose row has been
\* deleted is answered 401 by every protected view (the uploads,
\* create_classification, list_classifications, the admin views), writes no
\* file and inserts no row.
C29_DeletedUserToken ==
    /\ [](\A p \in Procs :
             (/\ pc[p] = "done"
              /\ req[p].auth.scheme = "Bearer"
              /\ \A u \in users : u.id # req[p].auth.token.user_id)
                => resp[p].status = 401 /\ NoEffects(p))
    /\ [][\A p \in Procs :
             (/\ pc[p] # "idle" \/ pc'[p] # "idle"
              /\ req'[p].auth.scheme = "Bearer"
              /\ \A u \in users : u.id # req'[p].auth.token.user_id)
                => /\ images' = images /\ files' = files
                   /\ classifications' = classifications /\ users' = users]_vars

\* C29 for the views behind jwt_required and jwt_required_admin
C29_DecoratedViews ==
    \A p \in Procs :
        (/\ pc[p] = "done"
         /\ req[p].route # "upload_with_stage"
         /\ req[p].auth.scheme = "Bearer"
         /\ \A u \in users : u.id # req[p].auth.token.user_id)
            => resp[p].status = 401 /\ NoEffects(p)


\* C30: every Image row and every Classification row that a request
\* inserts has as uploaded_by / user the id in the request's Bearer token,
\* and that token is signed by the server, not expired, and names an
\* existing user; no row is inserted for a request without such a token.
C30_OwnerFromToken ==
    [][/\ \A i \in images' :
             (\A j \in images : j.id # i.id) =>
                \E p \in Procs :
                   /\ pc[p] = "insert"
                   /\ Authenticated(req[p].auth)
                   /\ i.uploaded_by = req[p].auth.token.user_id
                   /\ \E u \in users : u.id = i.uploaded_by
       /\ \A c \in classifications' :
             (\A d \in classifications : d.id # c.id) =>
                \E p \in Procs :
                   /\ pc[p] = "classify" \/ Accepts(p, "create_classification")
                   /\ Authenticated(req'[p].auth)
                   /\ c.user = req'[p].auth.token.user_id
                   /\ \E u \in users : u.id = c.user]_vars

\* C30 witness: user 2 has uploaded an image and classified it; both rows
\* carry user 2.
C30_Witness ==
    \E p \in Procs : \E i \in images : \E c \in classifications :
        /\ pc[p] = "done" /\ req[p].route = "create_classification"
        /\ req[p].auth.token.user_id = 2
        /\ resp[p].status = 201
        /\ i.uploaded_by = 2 /\ c.image = i.id /\ c.user = 2

====
